---- MODULE Spec2Model ----
(***************************************************************************)
(* The Lambda entry point (lambda.js), the scheduled task handlers         *)
(* (handlers/scheduledTasks.js), the database module (config/database.js)  *)
(* and the upload route of app.js, as a state machine.                     *)
(*                                                                         *)
(* Strings that the code takes apart (the rule ARN) are sequences of       *)
(* one-character strings; strings that are only compared or stored are     *)
(* TLA+ strings.  Time is in milliseconds.                                 *)
(***************************************************************************)
EXTENDS Integers, Sequences, FiniteSets, TLC

VARIABLES
    pc,                      \* position of the current invocation
    event,                   \* the event of the current invocation
    ruleName,                \* lambda.js: const ruleName
    invoked,                 \* downstream components called by this invocation
    expressArg,              \* the event handed to the serverless-express handler
    response,                \* what the invocation returned
    outcome,                 \* "none" | "returned" | "thrown" | "exited"
    serverlessExpressInstance, \* lambda.js: lazily created handler
    isConnected,             \* database.js: connection flag
    readyState,              \* mongoose.connection.readyState
    invocationCount,         \* invocations started so far
    items,                   \* metadata store: item id -> s3Key of its files
    s3,                      \* object store: the objects, as Key and LastModified
    now,                     \* wall clock, ms
    results,                 \* dailyCleanup: const results
    validKeys,               \* dailyCleanup: const validKeys
    s3Files,                 \* dailyCleanup: const s3Files
    idx,                     \* dailyCleanup: position of the for..of loop
    healthResults,           \* healthCheck: const results
    report,                  \* weeklyReport: const report
    lastRun,                 \* results the latest completed dailyCleanup returned
    previous,                \* lastRun, as it was when the current dailyCleanup began
    uploadPc,                \* position of a request to POST /api/items/:id/files
    deleteRoute              \* a request to DELETE /api/items/:id/files/:fileId

vars == << pc, event, ruleName, invoked, expressArg, response, outcome,
           serverlessExpressInstance, isConnected, readyState, invocationCount,
           items, s3, now, results, validKeys, s3Files, idx, healthResults, report,
           lastRun, previous, uploadPc, deleteRoute >>

routeVars == << event, ruleName, invoked, expressArg >>
connVars == << isConnected, readyState >>
storeVars == << items, s3 >>
cleanupVars == << results, validKeys, s3Files, idx >>
logVars == << lastRun, previous >>

----------------------------------------------------------------------------
(* Bounds *)

MaxPieces == 3        \* pieces concatenated into a resource string
MaxTicks == 1         \* clock ticks after the initial instant
MaxRuns == 2          \* invocations after which no new one is started
MaxDays == 1          \* days that go by after the initial instant
ListPageSize == 4     \* keys in one page of a listing, scaled down from the 1000 of S3

----------------------------------------------------------------------------
(* Strings *)

SLASH == "/"

HEALTH_CHECK_RULE ==
    << "m","i","c","r","o","s","e","r","v","i","c","e","-",
       "h","e","a","l","t","h","-","c","h","e","c","k" >>

DAILY_CLEANUP_RULE ==
    << "m","i","c","r","o","s","e","r","v","i","c","e","-",
       "d","a","i","l","y","-","c","l","e","a","n","u","p" >>

WEEKLY_REPORT_RULE ==
    << "m","i","c","r","o","s","e","r","v","i","c","e","-",
       "w","e","e","k","l","y","-","r","e","p","o","r","t" >>

\* The rule identifiers without the microservice- prefix.
SPEC_HEALTH_CHECK == << "h","e","a","l","t","h","-","c","h","e","c","k" >>

SPEC_DAILY_CLEANUP == << "d","a","i","l","y","-","c","l","e","a","n","u","p" >>

SPEC_WEEKLY_REPORT == << "w","e","e","k","l","y","-","r","e","p","o","r","t" >>

ARN_RULE == << "a","r","n",":","r","u","l","e" >>

\* The pieces resource strings are built from.
Pieces ==
    { << SLASH >>, << "x" >>,
      HEALTH_CHECK_RULE, DAILY_CLEANUP_RULE, WEEKLY_REPORT_RULE,
      SPEC_HEALTH_CHECK, SPEC_DAILY_CLEANUP, SPEC_WEEKLY_REPORT }

RECURSIVE Concat(_)
Concat(ps) == IF ps = << >> THEN << >> ELSE Head(ps) \o Concat(Tail(ps))

ResourceStrings ==
    { Concat(ps) : ps \in UNION { [1..n -> Pieces] : n \in 0..MaxPieces } }

\* String.prototype.split(sep) for a one-character separator.
RECURSIVE Split(_, _)
Split(s, sep) ==
    IF \A i \in 1..Len(s) : s[i] # sep
    THEN << s >>
    ELSE LET i == CHOOSE j \in 1..Len(s) :
                      s[j] = sep /\ \A k \in 1..(j - 1) : s[k] # sep
         IN  << SubSeq(s, 1, i - 1) >> \o Split(SubSeq(s, i + 1, Len(s)), sep)

\* Array.prototype.pop(): the last element.
Pop(a) == a[Len(a)]

----------------------------------------------------------------------------
(* JavaScript values *)

Undefined == [t |-> "undefined"]
JsNull == [t |-> "null"]
JsObject == [t |-> "object"]
JsNumber(n) == [n |-> n, t |-> "number"]
JsString(s) == [s |-> s, t |-> "string"]
JsArray(a) == [a |-> a, t |-> "array"]

\* ToBoolean, as the || operator applies it.
Truthy(v) ==
    CASE v.t = "string" -> v.s # << >>
      [] v.t = "number" -> v.n # 0
      [] v.t = "object" -> TRUE
      [] v.t = "array" -> TRUE
      [] OTHER -> FALSE

\* a || b
JsOr(a, b) == IF Truthy(a) THEN a ELSE b

\* a?.[0]
OptionalFirst(a) ==
    CASE a.t = "array" -> IF Len(a.a) >= 1 THEN a.a[1] ELSE Undefined
      [] OTHER -> Undefined

----------------------------------------------------------------------------
(* Events *)

SourceValues == { Undefined, JsString("aws.events"), JsString("aws.s3") }

DetailTypeValues ==
    { Undefined, JsString("Scheduled Event"), JsString("Object Created") }

ResourceEntries ==
    { JsString(s) : s \in ResourceStrings }
        \cup { JsNull, JsObject, JsNumber(0), JsNumber(5) }

ResourceLists ==
    { Undefined, JsNull, JsArray(<< >>) }
        \cup { JsArray(<< r >>) : r \in ResourceEntries }
        \cup { JsArray(<< JsString(ARN_RULE \o << SLASH >> \o r), JsString(<< "x" >>) >>) :
                 r \in { HEALTH_CHECK_RULE, << "x" >> } }

AnyEvents ==
    [ source : SourceValues, detailType : DetailTypeValues,
      resources : ResourceLists ]

Arn(rule) == JsString(ARN_RULE \o << SLASH >> \o rule)

ScheduledEvent(rule) ==
    [ source |-> JsString("aws.events"),
      detailType |-> JsString("Scheduled Event"),
      resources |-> JsArray(<< Arn(rule) >>) ]

HttpEvent ==
    [ source |-> Undefined, detailType |-> Undefined, resources |-> Undefined ]

\* The events EventBridge and API Gateway send in normal operation.
UsualEvents ==
    { ScheduledEvent(HEALTH_CHECK_RULE), ScheduledEvent(DAILY_CLEANUP_RULE),
      ScheduledEvent(WEEKLY_REPORT_RULE), HttpEvent }

AllEvents == AnyEvents \cup UsualEvents

\* No event: the value of event and expressArg before any is assigned.
NoEvent ==
    [ source |-> Undefined, detailType |-> Undefined, resources |-> [ t |-> "none" ] ]

\* Variant: only the source marker is tested.
IsScheduledBySourceAlone(e) == e.source = JsString("aws.events")

\* lambda.js:45
IsScheduled(e) ==
    e.source = JsString("aws.events") \/ e.detailType = JsString("Scheduled Event")

\* lambda.js:50
RuleArn(e) == JsOr(OptionalFirst(e.resources), JsString(<< >>))

\* Variant: the first segment instead of the last.
RuleNameFirstSegment(ruleArn) == Head(Split(ruleArn.s, SLASH))

\* lambda.js:51; defined when ruleArn is a string
RuleName(ruleArn) == Pop(Split(ruleArn.s, SLASH))

----------------------------------------------------------------------------
(* The stores *)

\* scheduledTasks.js:150
oneDayMs == 24 * 60 * 60 * 1000

\* Object keys are paths: << "uploads", "A" >> is the key uploads/A.
KeyA == << "uploads", "A" >>
KeyB == << "uploads", "B" >>
KeyC == << "uploads", "C" >>
KeyD == << "uploads", "D" >>
KeyE == << "uploads", "E" >>
KeyItem == << "items", "i1", "0-f" >>

ItemIds == { "i1" }

\* app.js:241-242: the key of an upload, items/<id>/<timestamp>-<name>.  The
\* model has one upload, of a file g, and writes t for its timestamp.
UploadKey(id, name) == << "items", id, "t-" \o name >>
KeyUpload == UploadKey("i1", "g")

\* The keys of the model, in the (lexicographic) order S3 lists them.
KeyOrder == << KeyItem, KeyUpload, KeyA, KeyB, KeyC, KeyD, KeyE >>
AllKeys == { KeyOrder[i] : i \in 1..Len(KeyOrder) }

\* The keys of the initial stores: they fit in one page of a listing.
Keys == AllKeys \ { KeyUpload, KeyD, KeyE }

\* Variant: the listing has no prefix, as the one of weeklyReport.
NO_PREFIX == << >>

\* scheduledTasks.js:131 Prefix: 'uploads/'
UPLOADS_PREFIX == << "uploads" >>

\* Variant: the prefix is not compared.
HasPrefixLengthOnly(key, prefix) == Len(key) > Len(prefix)

HasPrefix(key, prefix) ==
    /\ Len(key) > Len(prefix)
    /\ SubSeq(key, 1, Len(prefix)) = prefix

Stored(key) == \E o \in s3 : o.Key = key
ObjectAt(key) == CHOOSE o \in s3 : o.Key = key

\* One response of ListObjectsV2 holds at most a page of keys (1000 in S3, here
\* ListPageSize); the code sends one request and reads Contents, never
\* IsTruncated or NextContinuationToken.
FirstPage(listed) ==
    SubSeq(listed, 1, IF Len(listed) < ListPageSize THEN Len(listed) ELSE ListPageSize)

\* ListObjectsV2: the objects under the prefix, in key order.
ListObjectsV2(prefix) ==
    LET listed == FirstPage(SelectSeq(KeyOrder, LAMBDA k : Stored(k) /\ HasPrefix(k, prefix)))
    IN  [ i \in 1..Len(listed) |-> ObjectAt(listed[i]) ]

\* Variant: the object stays in the store.
DeleteObjectKeepsObject(key) == s3

\* PutObject: the object is written, or written over, at the present instant.
PutObject(key) ==
    { o \in s3 : o.Key # key } \cup { [ Key |-> key, LastModified |-> now ] }

\* Variant: every object in the folder of the key goes with it.
DeleteObjectsInFolder(key) == { o \in s3 : o.Key[1] # key[1] }

\* DeleteObject: succeeds whether or not the key is stored.
DeleteObject(key) == { o \in s3 : o.Key # key }

\* scheduledTasks.js:115-124: the s3Key of every file of every item
ReferencedKeys(found) ==
    UNION { { found[i][j] : j \in 1..Len(found[i]) } : i \in DOMAIN found }
        \ { << >> }

----------------------------------------------------------------------------
(* Responses *)

NoResponse == [ statusCode |-> 0, body |-> [ kind |-> "none" ] ]

\* lambda.js:68-71
UnknownRuleResponse(rule) ==
    [ statusCode |-> 200,
      body |-> [ message |-> "Unknown rule - no action taken", rule |-> rule ] ]

\* The result of the serverless-express handler (outside this model).
ExpressResponse == [ statusCode |-> 200, body |-> [ kind |-> "express" ] ]

NoResults ==
    [ timestamp |-> 0, filesChecked |-> 0, filesDeleted |-> 0,
      deletedFiles |-> << >>, errors |-> << >> ]

\* scheduledTasks.js:97-103
FreshResults ==
    [ timestamp |-> now, filesChecked |-> 0, filesDeleted |-> 0,
      deletedFiles |-> << >>, errors |-> << >> ]

\* Variant: only a general failure makes the run fail.
CleanupStatusGeneralOnly(errors) ==
    IF \A i \in 1..Len(errors) : "key" \in DOMAIN errors[i] THEN 200 ELSE 500

\* scheduledTasks.js:181
CleanupStatus(errors) == IF Len(errors) = 0 THEN 200 ELSE 500

\* scheduledTasks.js:180-183
CleanupResponse(res) ==
    [ statusCode |-> CleanupStatus(res.errors), body |-> res ]

\* A check that has not been recorded (the key is absent from results.checks).
NoCheck == [ status |-> "none", detail |-> "none" ]
Check(status, detail) == [ status |-> status, detail |-> detail ]
NoChecks == [ s3 |-> NoCheck, database |-> NoCheck ]

\* Variant: the verdict looks at the database check alone.
AllHealthyDatabaseOnly(c) == c.database.status \in { "healthy", "none" }

\* scheduledTasks.js:65: every recorded check is healthy
AllHealthy(c) ==
    \A name \in DOMAIN c : c[name].status \in { "healthy", "none" }

\* scheduledTasks.js:64-74
HealthResponse(c) ==
    [ statusCode |-> IF AllHealthy(c) THEN 200 ELSE 500,
      body |-> [ checks |-> c,
                 overall |-> IF AllHealthy(c) THEN "healthy" ELSE "unhealthy" ] ]

NoHealthResults == [ timestamp |-> 0, checks |-> NoChecks ]

\* report.metrics maps the names of the metrics computed so far to their values;
\* report.error is "none" while the key is absent.
NoReport == [ generatedAt |-> 0, period |-> "none", metrics |-> << >>, error |-> "none" ]

\* scheduledTasks.js:275-278
ReportResponse(r) == [ statusCode |-> 200, body |-> r ]

----------------------------------------------------------------------------
(* Initial state: a cold container, the stores holding anything *)

\* No request to the file-delete route has been made.
NoDeleteRequest ==
    [ pc |-> "idle", status |-> 0, error |-> "none", files |-> << >>, fileIndex |-> 0 ]

InitTimes == { 0, 1 }

\* Any set of objects, each last modified at one of the initial times.
InitStores ==
    { { [ Key |-> k, LastModified |-> t[k] ] : k \in K } :
        K \in SUBSET Keys, t \in [ Keys -> InitTimes ] }

InitFiles == { << >>, << KeyA, KeyB >>, << KeyC >> }

\* Metadata references uploads/A and uploads/B; the store holds A, B and C and
\* an object written by the upload route.
ScenarioStore == { [ Key |-> k, LastModified |-> 0 ] : k \in Keys }

\* More objects under the prefix than one page of a listing holds.
PagedStores ==
    { { [ Key |-> k, LastModified |-> t[k] ] : k \in { KeyA, KeyB, KeyC, KeyD, KeyE } } :
        t \in [ AllKeys -> InitTimes ] }

InitNow == oneDayMs - 1

InitLocals ==
    /\ pc = "idle"
    /\ event = NoEvent
    /\ ruleName = << >>
    /\ invoked = << >>
    /\ expressArg = NoEvent
    /\ response = NoResponse
    /\ outcome = "none"
    /\ serverlessExpressInstance = FALSE
    /\ isConnected = FALSE
    /\ readyState = 0
    /\ invocationCount = 0
    /\ results = NoResults
    /\ validKeys = { }
    /\ s3Files = << >>
    /\ idx = 0
    /\ healthResults = NoHealthResults
    /\ report = NoReport
    /\ lastRun = NoResults
    /\ previous = NoResults
    /\ uploadPc = "idle"
    /\ deleteRoute = NoDeleteRequest

Init ==
    /\ InitLocals
    /\ items = [ i \in ItemIds |-> << KeyA, KeyB >> ]
    /\ s3 = ScenarioStore
    /\ now = InitNow

InitCleanup ==
    /\ InitLocals
    /\ items \in [ ItemIds -> InitFiles ]
    /\ s3 \in InitStores
    /\ now = InitNow

InitPaged ==
    /\ InitLocals
    /\ items \in [ ItemIds -> InitFiles ]
    /\ s3 \in PagedStores
    /\ now = InitNow

----------------------------------------------------------------------------
(* config/database.js *)

\* database.js:13-16: connectDB returns without connecting
UsesExistingConnection == isConnected

\* database.js:41-45: mongoose.connect resolved
ConnectResolved ==
    /\ readyState' = 1
    /\ isConnected' = (readyState' = 1)

\* database.js:46-49: the catch block ends the process
ProcessExit ==
    /\ pc' = "exited"
    /\ outcome' = "exited"
    /\ response' = NoResponse

\* database.js:61-64
Disconnected ==
    /\ readyState = 1
    /\ readyState' = 0
    /\ isConnected' = FALSE
    /\ UNCHANGED << pc, routeVars, response, outcome, serverlessExpressInstance,
                    invocationCount, storeVars, now, cleanupVars, healthResults,
                    report, logVars, uploadPc, deleteRoute >>

ConnectFailed ==
    /\ pc \in { "hc_connect", "dc_connect", "wr_connect" }
    /\ ProcessExit
    /\ UNCHANGED << routeVars, serverlessExpressInstance, connVars,
                    invocationCount, storeVars, now, cleanupVars, healthResults,
                    report, logVars, uploadPc, deleteRoute >>

\* database.js:41: mongoose.connect has begun and the connection is connecting
ConnectBegun ==
    /\ pc \in { "hc_connect", "dc_connect", "wr_connect" }
    /\ readyState = 0
    /\ readyState' = 2
    /\ UNCHANGED << pc, isConnected, routeVars, response, outcome,
                    serverlessExpressInstance, invocationCount, storeVars, now,
                    cleanupVars, healthResults, report, logVars, uploadPc,
                    deleteRoute >>

\* database.js:53-55: the driver found the server again; the listener of
\* 'connected' writes a log line and leaves the flag as it is
Reconnected ==
    /\ pc # "exited"
    /\ readyState = 0
    /\ readyState' = 1
    /\ UNCHANGED << pc, isConnected, routeVars, response, outcome,
                    serverlessExpressInstance, invocationCount, storeVars, now,
                    cleanupVars, healthResults, report, logVars, uploadPc,
                    deleteRoute >>

\* database.js:67-68: SIGINT arrives and the handler awaits
\* mongoose.connection.close(); the connection is disconnecting and the event
\* 'disconnecting' has no listener
SigintClose ==
    /\ pc # "exited"
    /\ readyState = 1
    /\ readyState' = 3
    /\ UNCHANGED << pc, isConnected, routeVars, response, outcome,
                    serverlessExpressInstance, invocationCount, storeVars, now,
                    cleanupVars, healthResults, report, logVars, uploadPc,
                    deleteRoute >>

\* database.js:61-64 and 68-70: the connection is closed, the listener of
\* 'disconnected' clears the flag and the handler of SIGINT ends the process,
\* with the invocation that was under way, if any
ConnectionClosed ==
    /\ readyState = 3
    /\ readyState' = 0
    /\ isConnected' = FALSE
    /\ pc' = "exited"
    /\ IF pc \in { "idle", "done" }
       THEN UNCHANGED << response, outcome >>
       ELSE outcome' = "exited" /\ response' = NoResponse
    /\ UNCHANGED << routeVars, serverlessExpressInstance, invocationCount,
                    storeVars, now, cleanupVars, healthResults, report, logVars,
                    uploadPc, deleteRoute >>

\* A new container: every module is loaded afresh.
ColdStart ==
    /\ pc = "exited"
    /\ pc' = "idle"
    /\ serverlessExpressInstance' = FALSE
    /\ isConnected' = FALSE
    /\ readyState' = 0
    /\ UNCHANGED << routeVars, response, outcome, invocationCount, storeVars,
                    now, cleanupVars, healthResults, report, logVars,
                    uploadPc, deleteRoute >>

Return(resp) ==
    /\ pc' = "done"
    /\ outcome' = "returned"
    /\ response' = resp

\* The locals of a task that is not running.
NoCleanupLocals ==
    /\ results' = NoResults
    /\ validKeys' = { }
    /\ s3Files' = << >>
    /\ idx' = 0

----------------------------------------------------------------------------
(* handlers/scheduledTasks.js: healthCheck *)

WithCheck(name, check) ==
    [ healthResults EXCEPT !.checks = [ @ EXCEPT ![name] = check ] ]

\* scheduledTasks.js:26-47, up to the first await that waits for the network
StartHealthCheck ==
    /\ invoked' = << "healthCheck" >>
    /\ IF readyState = 1
       THEN /\ healthResults' =
                   [ timestamp |-> now,
                     checks |-> [ NoChecks EXCEPT
                                    !.database = Check("healthy", "connected") ] ]
            /\ pc' = "hc_s3"
       ELSE IF UsesExistingConnection
       THEN /\ healthResults' =
                   [ timestamp |-> now,
                     checks |-> [ NoChecks EXCEPT
                                    !.database = Check("healthy", "reconnected") ] ]
            /\ pc' = "hc_s3"
       ELSE /\ healthResults' = [ timestamp |-> now, checks |-> NoChecks ]
            /\ pc' = "hc_connect"
    /\ response' = NoResponse
    /\ outcome' = "none"
    /\ NoCleanupLocals
    /\ report' = NoReport
    /\ UNCHANGED << expressArg, serverlessExpressInstance, connVars, storeVars,
                    logVars, uploadPc, deleteRoute >>

\* scheduledTasks.js:45-46
HcConnected ==
    /\ pc = "hc_connect"
    /\ ConnectResolved
    /\ healthResults' = WithCheck("database", Check("healthy", "reconnected"))
    /\ pc' = "hc_s3"
    /\ UNCHANGED << routeVars, response, outcome, serverlessExpressInstance,
                    invocationCount, storeVars, now, cleanupVars, report, logVars,
                    uploadPc, deleteRoute >>

\* scheduledTasks.js:53-74
HcS3(status) ==
    /\ pc = "hc_s3"
    /\ healthResults' = WithCheck("s3", Check(status, IF status = "healthy" THEN "none" ELSE "error"))
    /\ Return(HealthResponse(healthResults'.checks))
    /\ UNCHANGED << routeVars, serverlessExpressInstance, connVars,
                    invocationCount, storeVars, now, cleanupVars, report, logVars,
                    uploadPc, deleteRoute >>

HcS3Ok == HcS3("healthy")

HcS3Failed == HcS3("unhealthy")

----------------------------------------------------------------------------
(* handlers/scheduledTasks.js: dailyCleanup *)

\* Variant: the window is one millisecond short.
IsRecentOffByOne(fileAge) == fileAge < oneDayMs - 1

\* scheduledTasks.js:151
IsRecent(fileAge) == fileAge < oneDayMs

\* scheduledTasks.js:149
FileAge(s3File) == now - s3File.LastModified

\* scheduledTasks.js:94-108
StartDailyCleanup ==
    /\ invoked' = << "dailyCleanup" >>
    /\ results' = FreshResults
    /\ previous' = lastRun
    /\ validKeys' = { }
    /\ s3Files' = << >>
    /\ idx' = 0
    /\ pc' = IF UsesExistingConnection THEN "dc_find" ELSE "dc_connect"
    /\ response' = NoResponse
    /\ outcome' = "none"
    /\ healthResults' = NoHealthResults
    /\ report' = NoReport
    /\ UNCHANGED << expressArg, serverlessExpressInstance, connVars, storeVars,
                    lastRun, uploadPc, deleteRoute >>

\* scheduledTasks.js:108
DcConnected ==
    /\ pc = "dc_connect"
    /\ ConnectResolved
    /\ pc' = "dc_find"
    /\ UNCHANGED << routeVars, response, outcome, serverlessExpressInstance,
                    invocationCount, storeVars, now, cleanupVars, healthResults,
                    report, logVars, uploadPc, deleteRoute >>

\* scheduledTasks.js:173-183: the run ends with the results gathered so far
DcFinish(res) ==
    /\ results' = res
    /\ lastRun' = res
    /\ Return(CleanupResponse(res))

\* scheduledTasks.js:173-176
DcGeneralError(message) ==
    DcFinish([ results EXCEPT !.errors = Append(@, [ general |-> message ]) ])

\* scheduledTasks.js:112-126
DcFound ==
    /\ pc = "dc_find"
    /\ validKeys' = ReferencedKeys(items)
    /\ pc' = "dc_list"
    /\ UNCHANGED << routeVars, response, outcome, serverlessExpressInstance,
                    connVars, invocationCount, storeVars, now, results, s3Files,
                    idx, healthResults, report, logVars, uploadPc,
                    deleteRoute >>

DcFindFailed ==
    /\ pc = "dc_find"
    /\ DcGeneralError("QueryError")
    /\ UNCHANGED << routeVars, serverlessExpressInstance, connVars,
                    invocationCount, storeVars, now, validKeys, s3Files, idx,
                    healthResults, report, previous, uploadPc, deleteRoute >>

\* scheduledTasks.js:129-137
DcListed ==
    /\ pc = "dc_list"
    /\ s3Files' = ListObjectsV2(UPLOADS_PREFIX)
    /\ results' = [ results EXCEPT !.filesChecked = Len(s3Files') ]
    /\ idx' = 1
    /\ pc' = "dc_loop"
    /\ UNCHANGED << routeVars, response, outcome, serverlessExpressInstance,
                    connVars, invocationCount, storeVars, now, validKeys,
                    healthResults, report, logVars, uploadPc, deleteRoute >>

DcListFailed ==
    /\ pc = "dc_list"
    /\ DcGeneralError("StorageError")
    /\ UNCHANGED << routeVars, serverlessExpressInstance, connVars,
                    invocationCount, storeVars, now, validKeys, s3Files, idx,
                    healthResults, report, previous, uploadPc, deleteRoute >>

InLoop == pc = "dc_loop" /\ idx <= Len(s3Files)

\* Variant: the reference check is missing.
SkippedByAgeOnly(s3File) == IsRecent(FileAge(s3File))

\* scheduledTasks.js:144 and 151: the object is left alone
Skipped(s3File) == s3File.Key \in validKeys \/ IsRecent(FileAge(s3File))

\* scheduledTasks.js:140-154
DcSkip ==
    /\ InLoop
    /\ Skipped(s3Files[idx])
    /\ idx' = idx + 1
    /\ UNCHANGED << pc, routeVars, response, outcome, serverlessExpressInstance,
                    connVars, invocationCount, storeVars, now, results,
                    validKeys, s3Files, healthResults, report, logVars,
                    uploadPc, deleteRoute >>

\* Variant: the key is put at the front of the deleted keys.
RecordDeletedAtFront(res, key) ==
    [ res EXCEPT !.filesDeleted = @ + 1, !.deletedFiles = << key >> \o @ ]

\* scheduledTasks.js:163-164
RecordDeleted(res, key) ==
    [ res EXCEPT !.filesDeleted = @ + 1, !.deletedFiles = Append(@, key) ]

\* Variant: a failed deletion is counted as deleted.
RecordDeleteErrorCounted(res, key) ==
    [ res EXCEPT !.filesDeleted = @ + 1,
                 !.errors = Append(@, [ key |-> key, error |-> "StorageError" ]) ]

\* scheduledTasks.js:168
RecordDeleteError(res, key) ==
    [ res EXCEPT !.errors = Append(@, [ key |-> key, error |-> "StorageError" ]) ]

\* scheduledTasks.js:157-165
DcDeleted ==
    /\ InLoop
    /\ ~Skipped(s3Files[idx])
    /\ s3' = DeleteObject(s3Files[idx].Key)
    /\ results' = RecordDeleted(results, s3Files[idx].Key)
    /\ idx' = idx + 1
    /\ UNCHANGED << pc, routeVars, response, outcome, serverlessExpressInstance,
                    connVars, invocationCount, items, now, validKeys, s3Files,
                    healthResults, report, logVars, uploadPc, deleteRoute >>

\* Variant: without the inner try, a failed deletion reaches the outer catch.
DcDeleteFailureEndsRun ==
    /\ InLoop
    /\ ~Skipped(s3Files[idx])
    /\ DcGeneralError("StorageError")
    /\ UNCHANGED << routeVars, serverlessExpressInstance, connVars,
                    invocationCount, storeVars, now, validKeys, s3Files, idx,
                    healthResults, report, previous, uploadPc, deleteRoute >>

\* scheduledTasks.js:167-170
DcDeleteFailed ==
    /\ InLoop
    /\ ~Skipped(s3Files[idx])
    /\ results' = RecordDeleteError(results, s3Files[idx].Key)
    /\ idx' = idx + 1
    /\ UNCHANGED << pc, routeVars, response, outcome, serverlessExpressInstance,
                    connVars, invocationCount, storeVars, now, validKeys,
                    s3Files, healthResults, report, logVars, uploadPc,
                    deleteRoute >>

\* scheduledTasks.js:171-183: the loop is over
DcReturn ==
    /\ pc = "dc_loop"
    /\ idx > Len(s3Files)
    /\ DcFinish(results)
    /\ UNCHANGED << routeVars, serverlessExpressInstance, connVars,
                    invocationCount, storeVars, now, validKeys, s3Files, idx,
                    healthResults, report, previous, uploadPc, deleteRoute >>

----------------------------------------------------------------------------
(* handlers/scheduledTasks.js: weeklyReport *)

\* The metadata queries of the report, in the order the code awaits them.
ReportQueries == << "wr_total", "wr_created", "wr_updated", "wr_files" >>

QueryIndex(p) == CHOOSE i \in 1..Len(ReportQueries) : ReportQueries[i] = p

AfterQuery(p) ==
    IF QueryIndex(p) < Len(ReportQueries)
    THEN ReportQueries[QueryIndex(p) + 1]
    ELSE "wr_s3"

TotalFiles == LET n[S \in SUBSET ItemIds] ==
                      IF S = { } THEN 0
                      ELSE LET i == CHOOSE j \in S : TRUE
                           IN  Len(items[i]) + n[S \ { i }]
              IN  n[ItemIds]

\* scheduledTasks.js:224-251: what each query adds to report.metrics.  Creation
\* and update times and file sizes are not part of the model: those metrics are
\* recorded as computed.
QueryMetrics(p) ==
    CASE p = "wr_total" -> "totalItems" :> Cardinality(ItemIds)
      [] p = "wr_created" -> "itemsCreatedThisWeek" :> "computed"
      [] p = "wr_updated" -> "itemsUpdatedThisWeek" :> "computed"
      [] p = "wr_files" -> ("totalFiles" :> TotalFiles) @@ ("totalFileSizeMB" :> "computed")

\* scheduledTasks.js:203-215
StartWeeklyReport ==
    /\ invoked' = << "weeklyReport" >>
    /\ report' = [ generatedAt |-> now, period |-> "last_7_days",
                   metrics |-> << >>, error |-> "none" ]
    /\ pc' = IF UsesExistingConnection THEN "wr_total" ELSE "wr_connect"
    /\ response' = NoResponse
    /\ outcome' = "none"
    /\ healthResults' = NoHealthResults
    /\ NoCleanupLocals
    /\ UNCHANGED << expressArg, serverlessExpressInstance, connVars, storeVars,
                    lastRun, previous, uploadPc, deleteRoute >>

\* scheduledTasks.js:215
WrConnected ==
    /\ pc = "wr_connect"
    /\ ConnectResolved
    /\ pc' = "wr_total"
    /\ UNCHANGED << routeVars, response, outcome, serverlessExpressInstance,
                    invocationCount, storeVars, now, cleanupVars, healthResults,
                    report, logVars, uploadPc, deleteRoute >>

\* scheduledTasks.js:224-251
WrQueried ==
    /\ pc \in { ReportQueries[i] : i \in 1..Len(ReportQueries) }
    /\ report' = [ report EXCEPT !.metrics = QueryMetrics(pc) @@ @ ]
    /\ pc' = AfterQuery(pc)
    /\ UNCHANGED << routeVars, response, outcome, serverlessExpressInstance,
                    connVars, invocationCount, storeVars, now, cleanupVars,
                    healthResults, logVars, uploadPc, deleteRoute >>

\* scheduledTasks.js:268-278
WrQueryFailed ==
    /\ pc \in { ReportQueries[i] : i \in 1..Len(ReportQueries) }
    /\ report' = [ report EXCEPT !.error = "QueryError" ]
    /\ Return(ReportResponse(report'))
    /\ UNCHANGED << routeVars, serverlessExpressInstance, connVars,
                    invocationCount, storeVars, now, cleanupVars, healthResults,
                    lastRun, previous, uploadPc, deleteRoute >>

\* ListObjectsV2 without a prefix: every object of the bucket.
ListAll == ListObjectsV2(<< >>)

\* scheduledTasks.js:254-263
WrListed ==
    /\ pc = "wr_s3"
    /\ report' = [ report EXCEPT !.metrics =
                     ("s3ObjectCount" :> Len(ListAll))
                         @@ ("s3TotalSizeMB" :> "computed") @@ @ ]
    /\ Return(ReportResponse(report'))
    /\ UNCHANGED << routeVars, serverlessExpressInstance, connVars,
                    invocationCount, storeVars, now, cleanupVars, healthResults,
                    lastRun, previous, uploadPc, deleteRoute >>

\* Variant: without the inner try, a failed listing reaches the outer catch.
WrListFailureIsGeneral ==
    /\ pc = "wr_s3"
    /\ report' = [ report EXCEPT !.error = "StorageError" ]
    /\ Return(ReportResponse(report'))
    /\ UNCHANGED << routeVars, serverlessExpressInstance, connVars,
                    invocationCount, storeVars, now, cleanupVars, healthResults,
                    lastRun, previous, uploadPc, deleteRoute >>

\* scheduledTasks.js:264-266
WrListFailed ==
    /\ pc = "wr_s3"
    /\ report' = [ report EXCEPT !.metrics = ("s3Error" :> "StorageError") @@ @ ]
    /\ Return(ReportResponse(report'))
    /\ UNCHANGED << routeVars, serverlessExpressInstance, connVars,
                    invocationCount, storeVars, now, cleanupVars, healthResults,
                    lastRun, previous, uploadPc, deleteRoute >>

----------------------------------------------------------------------------
(* lambda.js *)

IsSuffix(suffix, str) ==
    /\ Len(suffix) <= Len(str)
    /\ SubSeq(str, Len(str) - Len(suffix) + 1, Len(str)) = suffix

\* Variant: the rule name is matched by its ending.
RouteBySuffix(rule) ==
    CASE IsSuffix(SPEC_HEALTH_CHECK, rule) -> "healthCheck"
      [] IsSuffix(SPEC_DAILY_CLEANUP, rule) -> "dailyCleanup"
      [] IsSuffix(SPEC_WEEKLY_REPORT, rule) -> "weeklyReport"
      [] OTHER -> "default"

\* Variant: two case labels exchanged.
RouteSwapped(rule) ==
    CASE rule = HEALTH_CHECK_RULE -> "dailyCleanup"
      [] rule = DAILY_CLEANUP_RULE -> "healthCheck"
      [] rule = WEEKLY_REPORT_RULE -> "weeklyReport"
      [] OTHER -> "default"

\* lambda.js:56-72: the case of the switch that the rule name selects
Route(rule) ==
    CASE rule = HEALTH_CHECK_RULE -> "healthCheck"
      [] rule = DAILY_CLEANUP_RULE -> "dailyCleanup"
      [] rule = WEEKLY_REPORT_RULE -> "weeklyReport"
      [] OTHER -> "default"

\* Variant: the default case has no return and falls through to the HTTP path.
ReturnUnknownRuleFallsThrough(rule) ==
    /\ serverlessExpressInstance' = TRUE
    /\ invoked' = << "express" >>
    /\ expressArg' = event'
    /\ Return(ExpressResponse)
    /\ healthResults' = NoHealthResults
    /\ report' = NoReport
    /\ NoCleanupLocals
    /\ UNCHANGED << connVars, storeVars, logVars, uploadPc, deleteRoute >>

\* lambda.js:66-71
ReturnUnknownRule(rule) ==
    /\ invoked' = << >>
    /\ Return(UnknownRuleResponse(rule))
    /\ healthResults' = NoHealthResults
    /\ report' = NoReport
    /\ NoCleanupLocals
    /\ UNCHANGED << expressArg, serverlessExpressInstance, connVars, storeVars,
                    lastRun, previous, uploadPc, deleteRoute >>

\* lambda.js:51: split is not a function of a value that is no string; the
\* TypeError rejects the promise the handler returned.
ThrowTypeError ==
    /\ invoked' = << >>
    /\ ruleName' = << >>
    /\ pc' = "done"
    /\ outcome' = "thrown"
    /\ response' = NoResponse
    /\ healthResults' = NoHealthResults
    /\ report' = NoReport
    /\ NoCleanupLocals
    /\ UNCHANGED << expressArg, serverlessExpressInstance, connVars, storeVars,
                    lastRun, previous, uploadPc, deleteRoute >>

\* lambda.js:45-73
HandleScheduled(e) ==
    LET ruleArn == RuleArn(e)
    IN  IF ruleArn.t # "string"
        THEN ThrowTypeError
        ELSE /\ ruleName' = RuleName(ruleArn)
             /\ CASE Route(ruleName') = "healthCheck" -> StartHealthCheck
                  [] Route(ruleName') = "dailyCleanup" -> StartDailyCleanup
                  [] Route(ruleName') = "weeklyReport" -> StartWeeklyReport
                  [] OTHER -> ReturnUnknownRule(ruleName')

\* lambda.js:22-27 and 80-81
HandleHttp(e) ==
    /\ serverlessExpressInstance' = TRUE
    /\ invoked' = << "express" >>
    /\ expressArg' = e
    /\ ruleName' = << >>
    /\ Return(ExpressResponse)
    /\ healthResults' = NoHealthResults
    /\ report' = NoReport
    /\ NoCleanupLocals
    /\ UNCHANGED << connVars, storeVars, logVars, uploadPc, deleteRoute >>

\* lambda.js:37-82: exports.handler, up to its first await
Handler(e) ==
    /\ pc \in { "idle", "done" }
    /\ invocationCount < MaxRuns
    /\ invocationCount' = invocationCount + 1
    /\ event' = e
    /\ IF IsScheduled(e) THEN HandleScheduled(e) ELSE HandleHttp(e)
    /\ UNCHANGED now

\* The first invocation, with any event.
InvokeAny == invocationCount = 0 /\ \E e \in AllEvents : Handler(e)

\* An invocation by the daily-cleanup rule.
InvokeCleanup == Handler(ScheduledEvent(DAILY_CLEANUP_RULE))

----------------------------------------------------------------------------
(* app.js: POST /api/items/:id/files, served by another container while the
   scheduled tasks run *)

UploadUnchanged ==
    UNCHANGED << pc, routeVars, response, outcome, serverlessExpressInstance,
                 connVars, invocationCount, now, cleanupVars, healthResults,
                 report, logVars, deleteRoute >>

\* app.js:235-249: the item is found and the object written to the store.  The
\* bucket of the route is taken to be the one the scheduled tasks work on.
UploadStored ==
    /\ uploadPc = "idle"
    /\ s3' = PutObject(UploadKey("i1", "g"))
    /\ uploadPc' = "stored"
    /\ UNCHANGED items
    /\ UploadUnchanged

\* app.js:270-273: findById or uploadFile rejected; nothing is written
UploadRejected ==
    /\ uploadPc = "idle"
    /\ uploadPc' = "failed"
    /\ UNCHANGED storeVars
    /\ UploadUnchanged

\* app.js:252-262: the descriptor is pushed and the item saved
UploadSaved ==
    /\ uploadPc = "stored"
    /\ items' = [ items EXCEPT !["i1"] = Append(@, UploadKey("i1", "g")) ]
    /\ uploadPc' = "saved"
    /\ UNCHANGED s3
    /\ UploadUnchanged

\* app.js:262 and 270-273: item.save rejected; the object stays in the store
UploadSaveFailed ==
    /\ uploadPc = "stored"
    /\ uploadPc' = "failed"
    /\ UNCHANGED storeVars
    /\ UploadUnchanged

UploadStep == UploadStored \/ UploadRejected \/ UploadSaved \/ UploadSaveFailed

----------------------------------------------------------------------------
(* app.js: DELETE /api/items/:id/files/:fileId, for the item i1 *)

DeleteRouteUnchanged ==
    UNCHANGED << pc, routeVars, response, outcome, serverlessExpressInstance,
                 connVars, invocationCount, now, cleanupVars, healthResults,
                 report, logVars, uploadPc >>

\* app.js:377: item.files.splice(fileIndex, 1)
Splice(files, fileIndex) ==
    SubSeq(files, 1, fileIndex - 1) \o SubSeq(files, fileIndex + 1, Len(files))

\* app.js:383-386, and the early returns of 357, 362 and 368
Respond(status, error) ==
    deleteRoute' = [ deleteRoute EXCEPT !.pc = "responded", !.status = status,
                                        !.error = error ]

\* app.js:360-371: the item is loaded and holds a file with the id
DeleteRouteFound(fileIndex) ==
    /\ deleteRoute.pc = "idle"
    /\ fileIndex \in 1..Len(items["i1"])
    /\ deleteRoute' = [ deleteRoute EXCEPT !.pc = "s3_delete",
                                           !.files = items["i1"],
                                           !.fileIndex = fileIndex ]
    /\ UNCHANGED storeVars
    /\ DeleteRouteUnchanged

\* app.js:366-369: no file of the item has the id
DeleteRouteNotFound ==
    /\ deleteRoute.pc = "idle"
    /\ Respond(404, "none")
    /\ UNCHANGED storeVars
    /\ DeleteRouteUnchanged

\* app.js:360 and 383-386: findById rejected
DeleteRouteFindFailed ==
    /\ deleteRoute.pc = "idle"
    /\ Respond(500, "QueryError")
    /\ UNCHANGED storeVars
    /\ DeleteRouteUnchanged

\* app.js:374: deleteFile resolved
DeleteRouteDeleted ==
    /\ deleteRoute.pc = "s3_delete"
    /\ s3' = DeleteObject(deleteRoute.files[deleteRoute.fileIndex])
    /\ deleteRoute' = [ deleteRoute EXCEPT !.pc = "save" ]
    /\ UNCHANGED items
    /\ DeleteRouteUnchanged

\* Variant: the descriptor is removed before the object is deleted.
DeleteRouteDeleteFailedAfterSplice ==
    /\ deleteRoute.pc = "s3_delete"
    /\ items' = [ items EXCEPT !["i1"] = Splice(deleteRoute.files, deleteRoute.fileIndex) ]
    /\ Respond(500, "StorageError")
    /\ UNCHANGED s3
    /\ DeleteRouteUnchanged

\* app.js:374 and 383-386: deleteFile rejected
DeleteRouteDeleteFailed ==
    /\ deleteRoute.pc = "s3_delete"
    /\ Respond(500, "StorageError")
    /\ UNCHANGED storeVars
    /\ DeleteRouteUnchanged

\* app.js:377-382: the descriptor is taken out of the loaded item, the item is
\* saved and the route answers with the default status
DeleteRouteSaved ==
    /\ deleteRoute.pc = "save"
    /\ items' = [ items EXCEPT !["i1"] = Splice(deleteRoute.files, deleteRoute.fileIndex) ]
    /\ Respond(200, "none")
    /\ UNCHANGED s3
    /\ DeleteRouteUnchanged

\* app.js:378 and 383-386: item.save rejected
DeleteRouteSaveFailed ==
    /\ deleteRoute.pc = "save"
    /\ Respond(500, "SaveError")
    /\ UNCHANGED storeVars
    /\ DeleteRouteUnchanged

DeleteRouteStep ==
    \/ \E fileIndex \in DOMAIN items["i1"] : DeleteRouteFound(fileIndex)
    \/ DeleteRouteNotFound
    \/ DeleteRouteFindFailed
    \/ DeleteRouteDeleted
    \/ DeleteRouteDeleteFailed
    \/ DeleteRouteSaved
    \/ DeleteRouteSaveFailed

----------------------------------------------------------------------------
(* Environment *)

Tick ==
    /\ now < InitNow + MaxTicks
    /\ now' = now + 1
    /\ UNCHANGED << pc, routeVars, response, outcome, serverlessExpressInstance,
                    connVars, invocationCount, storeVars, cleanupVars,
                    healthResults, report, logVars, uploadPc, deleteRoute >>

\* A day goes by.
DayPasses ==
    /\ now < InitNow + MaxDays * oneDayMs
    /\ now' = now + oneDayMs
    /\ UNCHANGED << pc, routeVars, response, outcome, serverlessExpressInstance,
                    connVars, invocationCount, storeVars, cleanupVars,
                    healthResults, report, logVars, uploadPc, deleteRoute >>

HealthCheckStep == HcConnected \/ HcS3Ok \/ HcS3Failed

DailyCleanupStep ==
    \/ DcConnected
    \/ DcFound
    \/ DcFindFailed
    \/ DcListed
    \/ DcListFailed
    \/ DcSkip
    \/ DcDeleted
    \/ DcDeleteFailed
    \/ DcReturn

WeeklyReportStep ==
    WrConnected \/ WrQueried \/ WrQueryFailed \/ WrListed \/ WrListFailed

TaskStep == HealthCheckStep \/ DailyCleanupStep \/ WeeklyReportStep \/ ConnectFailed

\* The first invocation of a container, with any event, from the scenario.
Next == InvokeAny \/ TaskStep \/ Disconnected \/ ColdStart \/ Tick

Spec == Init /\ [][Next]_vars

\* Cleanup runs, from any stores.
NextCleanup ==
    \/ InvokeCleanup
    \/ DailyCleanupStep
    \/ ConnectFailed
    \/ Disconnected
    \/ ColdStart
    \/ Tick

SpecCleanup == InitCleanup /\ [][NextCleanup]_vars

\* Cleanup runs while a file is uploaded, from the scenario.
NextUpload == NextCleanup \/ UploadStep \/ DayPasses

SpecUpload == Init /\ [][NextUpload]_vars

\* Health checks and weekly reports of a container whose connection comes and
\* goes.
InvokeHealthCheck == Handler(ScheduledEvent(HEALTH_CHECK_RULE))

InvokeWeeklyReport == Handler(ScheduledEvent(WEEKLY_REPORT_RULE))

NextConnection ==
    \/ InvokeHealthCheck
    \/ InvokeWeeklyReport
    \/ HealthCheckStep
    \/ WeeklyReportStep
    \/ ConnectBegun
    \/ ConnectFailed
    \/ Reconnected
    \/ Disconnected
    \/ SigintClose
    \/ ConnectionClosed
    \/ ColdStart

SpecConnection == Init /\ [][NextConnection]_vars

\* A request to the file-delete route, from any stores.
NextDelete == DeleteRouteStep

SpecDelete == InitCleanup /\ [][NextDelete]_vars

\* Cleanup runs, from stores that hold more objects under the prefix than one
\* page of a listing.
SpecPaged == InitPaged /\ [][NextCleanup]_vars

----------------------------------------------------------------------------
(* Properties of the dispatcher (lambda.js) *)

ScheduledTasks == { << "healthCheck" >>, << "dailyCleanup" >>, << "weeklyReport" >> }

MappedRules == { HEALTH_CHECK_RULE, DAILY_CLEANUP_RULE, WEEKLY_REPORT_RULE }

Invoked == invocationCount > 0

\* The event carries one of the two scheduler markers.
HasSchedulerMarker ==
    \/ event.source = JsString("aws.events")
    \/ event.detailType = JsString("Scheduled Event")

\* The first entry of the event's resource list, when the list has one.
HasFirstEntry == event.resources.t = "array" /\ Len(event.resources.a) >= 1
FirstEntry == event.resources.a[1]

\* The invocation ended in the no-op diagnostic path for the identifier.
TookNoOpPath(rule) ==
    /\ pc = "done"
    /\ outcome = "returned"
    /\ response.statusCode = 200
    /\ response.body = [ message |-> "Unknown rule - no action taken", rule |-> rule ]
    /\ invoked = << >>
    /\ expressArg = NoEvent
    /\ ~serverlessExpressInstance

\* The substring after the final "/" of s, or s when it holds none.
AfterFinalSlash(s) ==
    LET slashes == { i \in 1..Len(s) : s[i] = SLASH }
    IN  IF slashes = { } THEN s
        ELSE LET last == CHOOSE i \in slashes : \A j \in slashes : j <= i
             IN  SubSeq(s, last + 1, Len(s))

\* C1: every scheduled invocation that reached healthCheck, dailyCleanup or
\* weeklyReport ends by returning a {statusCode, body} response, whatever
\* fails in the metadata store or the object store: no error leaves the handler
\* and the process is not terminated.
C1_ScheduledInvocationReturns ==
    (invoked \in ScheduledTasks /\ pc \in { "done", "exited" })
        => /\ pc = "done"
           /\ outcome = "returned"
           /\ response.statusCode \in { 200, 500 }

\* C2: a scheduled trigger whose rule identifier is none of the three mapped
\* identifiers returns status 200 with the diagnostic body, invokes none of the
\* three tasks and does not reach the HTTP request handler.
C2_UnknownRuleTakesNoAction ==
    (Invoked /\ HasSchedulerMarker /\ outcome # "thrown" /\ ruleName \notin MappedRules)
        => TookNoOpPath(ruleName)

C2_Witness ==
    /\ Invoked
    /\ HasSchedulerMarker
    /\ ruleName = << "x" >>
    /\ TookNoOpPath(<< "x" >>)

\* C3, as stated: the identifiers health-check, daily-cleanup and weekly-report
\* invoke the Health Aggregator, the Reconciliation Engine and the Metrics
\* Aggregator.
C3_SpecIdentifiersRoute ==
    (Invoked /\ HasSchedulerMarker /\ outcome # "thrown")
        => /\ ruleName = SPEC_HEALTH_CHECK => invoked = << "healthCheck" >>
           /\ ruleName = SPEC_DAILY_CLEANUP => invoked = << "dailyCleanup" >>
           /\ ruleName = SPEC_WEEKLY_REPORT => invoked = << "weeklyReport" >>

\* C3, amended: routing is an exact match on microservice-health-check,
\* microservice-daily-cleanup and microservice-weekly-report, which invoke
\* healthCheck, dailyCleanup and weeklyReport; every other identifier, the
\* unprefixed health-check, daily-cleanup and weekly-report among them, takes
\* the no-op diagnostic path.
C3_ExactMatchRouting ==
    (Invoked /\ HasSchedulerMarker /\ outcome # "thrown")
        => /\ ruleName = HEALTH_CHECK_RULE => invoked = << "healthCheck" >>
           /\ ruleName = DAILY_CLEANUP_RULE => invoked = << "dailyCleanup" >>
           /\ ruleName = WEEKLY_REPORT_RULE => invoked = << "weeklyReport" >>
           /\ invoked # << >> => ruleName \in MappedRules
           /\ ruleName \in { SPEC_HEALTH_CHECK, SPEC_DAILY_CLEANUP, SPEC_WEEKLY_REPORT }
                 => TookNoOpPath(ruleName)

C3_Witness ==
    /\ Invoked
    /\ HasSchedulerMarker
    /\ ruleName = WEEKLY_REPORT_RULE
    /\ invoked = << "weeklyReport" >>
    /\ pc = "done"

\* C4: the rule identifier is the substring after the final "/" of the first
\* entry of the resource list, the whole entry when it holds no "/"; an empty
\* resource list gives the empty identifier and the no-op diagnostic path.
C4_RuleIdentifierExtraction ==
    (Invoked /\ HasSchedulerMarker)
        => /\ (HasFirstEntry /\ FirstEntry.t = "string")
                 => ruleName = AfterFinalSlash(FirstEntry.s)
           /\ event.resources = JsArray(<< >>)
                 => ruleName = << >> /\ TookNoOpPath(<< >>)

C4_Witness ==
    /\ Invoked
    /\ event = ScheduledEvent(DAILY_CLEANUP_RULE)
    /\ ruleName = DAILY_CLEANUP_RULE
    /\ invoked = << "dailyCleanup" >>

\* C5: a scheduled trigger whose resource list is absent, or whose first entry
\* is no string (a number, an object, null), has the empty rule identifier and
\* takes the no-op diagnostic path.
C5_UnparsableResourceIsNoOp ==
    (Invoked /\ HasSchedulerMarker
        /\ (event.resources.t # "array"
               \/ (HasFirstEntry /\ FirstEntry.t # "string")))
        => ruleName = << >> /\ TookNoOpPath(<< >>)

\* C6: an event is handled as a scheduled trigger iff its source is aws.events
\* or its detail-type is Scheduled Event; every other event is handed unchanged
\* to the HTTP request handler and no scheduled task runs for it.
C6_Classification ==
    Invoked
        => IF HasSchedulerMarker
           THEN invoked # << "express" >> /\ expressArg = NoEvent
           ELSE /\ invoked = << "express" >>
                /\ expressArg = event
                /\ pc = "done"
                /\ outcome = "returned"
                /\ healthResults = NoHealthResults
                /\ results = NoResults
                /\ report = NoReport

C6_Witness ==
    /\ Invoked
    /\ event.source = JsString("aws.s3")
    /\ event.detailType = JsString("Object Created")
    /\ event.resources = JsArray(<< JsString(HEALTH_CHECK_RULE) >>)
    /\ invoked = << "express" >>
    /\ expressArg = event

----------------------------------------------------------------------------
(* Properties of dailyCleanup *)

InCleanup == invoked = << "dailyCleanup" >>

CompletedRun == InCleanup /\ pc = "done" /\ outcome = "returned"

ListedKeys == [ i \in 1..Len(s3Files) |-> s3Files[i].Key ]

Elements(seq) == { seq[i] : i \in 1..Len(seq) }

\* The entries of errors that name a key, and the keys they name.
KeyedErrors(errors) == SelectSeq(errors, LAMBDA e : "key" \in DOMAIN e)
ErrorKeys(errors) == { e.key : e \in Elements(KeyedErrors(errors)) }

\* The object was older than the grace period when the run began.
OldAtStart(s3File) == results.timestamp - s3File.LastModified >= oneDayMs

\* C7: with metadata referencing A and B and the store holding A, B and C under
\* the prefix, all older than the grace period, a run without failures deletes
\* exactly C; the next run without failures deletes nothing and reports a
\* scanned count of 2.
C7_Idempotence ==
    (CompletedRun /\ results.errors = << >> /\ validKeys = { KeyA, KeyB })
        => /\ (ListedKeys = << KeyA, KeyB, KeyC >>
                 /\ \A f \in Elements(s3Files) : OldAtStart(f))
                 => results.deletedFiles = << KeyC >>
           /\ (previous.filesChecked = 3
                 /\ previous.deletedFiles = << KeyC >>
                 /\ previous.errors = << >>)
                 => results.deletedFiles = << >> /\ results.filesChecked = 2

C7_Witness ==
    /\ CompletedRun
    /\ validKeys = { KeyA, KeyB }
    /\ previous.filesChecked = 3
    /\ previous.deletedFiles = << KeyC >>
    /\ previous.errors = << >>
    /\ results.errors = << >>
    /\ results.deletedFiles = << >>
    /\ results.filesChecked = 2

\* C8: an object that metadata does not reference leaves the store only at an
\* age of 24 hours or more, in every run; and the loop does not skip an
\* unreferenced object whose age is 24 hours or more: it attempts the deletion.
C8_GracePeriod ==
    [][ /\ \A o \in s3 :
              (o.Key \notin ReferencedKeys(items) /\ o \notin s3')
                  => now - o.LastModified >= oneDayMs
        /\ (InLoop /\ idx' = idx + 1
              /\ s3Files[idx].Key \notin validKeys
              /\ now - s3Files[idx].LastModified >= oneDayMs)
              => \/ results'.deletedFiles = Append(results.deletedFiles, s3Files[idx].Key)
                 \/ s3Files[idx].Key \in ErrorKeys(results'.errors)
      ]_vars

\* An object deleted at the age of exactly 24 hours, in a run that left a
\* younger unreferenced object alone.
C8_Witness ==
    /\ InCleanup
    /\ now = oneDayMs
    /\ \E i \in 1..Len(s3Files) :
          /\ s3Files[i].LastModified = 0
          /\ s3Files[i].Key \in Elements(results.deletedFiles)
          /\ ~Stored(s3Files[i].Key)
    /\ \E j \in 1..Len(s3Files) :
          /\ j < idx
          /\ s3Files[j].LastModified = 1
          /\ s3Files[j].Key \notin validKeys
          /\ s3Files[j] \in s3

\* C9: a failed deletion does not end the run: every listed object that is
\* unreferenced and was old enough is deleted or, when its own deletion failed,
\* named in errors; and the deleted count plus the number of errors that name a
\* key never exceeds the scanned count.
C9_PartialFailureIsolation ==
    InCleanup
        => /\ results.filesDeleted + Len(KeyedErrors(results.errors))
                 <= results.filesChecked
           /\ CompletedRun
                 => \A f \in Elements(s3Files) :
                       (f.Key \notin validKeys /\ OldAtStart(f))
                           => \/ f.Key \in Elements(results.deletedFiles) /\ ~Stored(f.Key)
                              \/ f.Key \in ErrorKeys(results.errors)

\* The deletion of one key failed and a key listed after it was deleted.
C9_Witness ==
    /\ CompletedRun
    /\ \E i, j \in 1..Len(s3Files) :
          /\ i < j
          /\ s3Files[i].Key \in ErrorKeys(results.errors)
          /\ Stored(s3Files[i].Key)
          /\ s3Files[j].Key \in Elements(results.deletedFiles)
          /\ ~Stored(s3Files[j].Key)

\* C10: throughout a run and in the result it returns, the deleted count is the
\* length of the deleted-keys sequence, and no key is both in the deleted-keys
\* sequence and in an errors entry.
C10_ResultInvariant ==
    InCleanup
        => /\ results.filesDeleted = Len(results.deletedFiles)
           /\ Elements(results.deletedFiles) \cap ErrorKeys(results.errors) = { }
           /\ CompletedRun
                 => /\ response.body = results
                    /\ response.body.filesDeleted = Len(response.body.deletedFiles)

C10_Witness ==
    /\ CompletedRun
    /\ response.body.filesDeleted = 1
    /\ Len(response.body.deletedFiles) = 1
    /\ Len(KeyedErrors(response.body.errors)) = 1

----------------------------------------------------------------------------
(* Properties of dailyCleanup: failures, status and order *)

\* The entries of errors that the outer catch wrote: they name no key.
GeneralErrors(errors) == SelectSeq(errors, LAMBDA e : "general" \in DOMAIN e)

\* C11: a run in which connecting to the metadata store, fetching the referenced
\* keys or listing the object store fails is caught: the process goes on, the
\* run returns a result with exactly one entry in errors, a general one, with
\* no deletion and a scanned count of 0.
C11_FetchOrListFailureIsCaught ==
    InCleanup
        => /\ pc # "exited"
           /\ GeneralErrors(results.errors) # << >>
                 => /\ CompletedRun
                    /\ response.body = results
                    /\ Len(results.errors) = 1
                    /\ results.deletedFiles = << >>
                    /\ results.filesDeleted = 0
                    /\ results.filesChecked = 0

\* C12: the status code of the response of a run is 200 when the errors sequence
\* of its result is empty and 500 when it is not, whichever of the fetch, the
\* listing and the deletions failed.
C12_StatusCode ==
    CompletedRun
        => /\ response.statusCode \in { 200, 500 }
           /\ response.statusCode = 200 <=> response.body.errors = << >>
           /\ response.statusCode = 500 <=> Len(response.body.errors) > 0

\* A run that deleted one object and failed to delete another returned 500.
C12_Witness ==
    /\ CompletedRun
    /\ response.statusCode = 500
    /\ Len(response.body.deletedFiles) = 1
    /\ Len(KeyedErrors(response.body.errors)) = 1
    /\ GeneralErrors(response.body.errors) = << >>

\* C13: a run never issues a delete for a key of the referenced-keys set it
\* built: the step of the loop at such an object, whatever its age and its place
\* in the listing, leaves the store and the result as they are, and no key of
\* the set is ever among the deleted keys or named in errors.
C13_ReferencedKeysAreSafe ==
    [][ /\ (InLoop /\ s3Files[idx].Key \in validKeys)
              => s3' = s3 /\ results' = results
        /\ InCleanup'
              => /\ validKeys' \cap Elements(results'.deletedFiles) = { }
                 /\ validKeys' \cap ErrorKeys(results'.errors) = { }
      ]_vars

\* The loop went past a referenced object older than the grace period, listed
\* after an unreferenced one that it deleted, and left it in the store.
C13_Witness ==
    /\ InCleanup
    /\ \E i, j \in 1..Len(s3Files) :
          /\ i < j /\ j < idx
          /\ s3Files[i].Key \in Elements(results.deletedFiles)
          /\ s3Files[j].Key \in validKeys
          /\ OldAtStart(s3Files[j])
          /\ s3Files[j] \in s3
    /\ results.errors = << >>

\* sub is a subsequence of seq: its elements occur in seq in the same order.
IsSubsequence(sub, seq) ==
    \E f \in [ 1..Len(sub) -> 1..Len(seq) ] :
       /\ \A i \in 1..Len(sub) : seq[f[i]] = sub[i]
       /\ \A i, j \in 1..Len(sub) : i < j => f[i] < f[j]

\* The keys for which the run has attempted a deletion, in the order of the
\* attempts that succeeded followed by the order of those that failed.
AttemptedKeys ==
    results.deletedFiles
        \o [ i \in 1..Len(KeyedErrors(results.errors)) |-> KeyedErrors(results.errors)[i].key ]

NoDuplicates(seq) == \A i, j \in 1..Len(seq) : seq[i] = seq[j] => i = j

\* C19: throughout a run the deleted keys are a subsequence of the listing: a
\* deletion appends the key of the object the loop is at and moves the loop on,
\* the deleted keys are never reordered, and no listed object gets a second
\* deletion attempt in the run.
C19_DeletedInListingOrder ==
    [][ /\ InCleanup'
              => /\ IsSubsequence(results'.deletedFiles, ListedKeys')
                 /\ NoDuplicates(AttemptedKeys')
                 /\ Elements(AttemptedKeys') \subseteq { ListedKeys'[i] : i \in 1..(idx' - 1) }
        /\ (pc = "dc_loop" /\ results'.deletedFiles # results.deletedFiles)
              => /\ idx <= Len(s3Files)
                 /\ results'.deletedFiles = Append(results.deletedFiles, s3Files[idx].Key)
                 /\ idx' = idx + 1
      ]_vars

\* A run deleted the first and the third object of its listing, in that order,
\* after the deletion of the second had failed.
C19_Witness ==
    /\ CompletedRun
    /\ Len(s3Files) = 3
    /\ results.deletedFiles = << s3Files[1].Key, s3Files[3].Key >>
    /\ ErrorKeys(results.errors) = { s3Files[2].Key }

----------------------------------------------------------------------------
(* Properties of dailyCleanup: completeness *)

UnderPrefix == { o \in s3 : HasPrefix(o.Key, UPLOADS_PREFIX) }

\* C14: after a run in which nothing failed, the store holds no object under
\* the prefix that metadata does not reference and that was 24 hours old or
\* more when the run began, however many objects the prefix holds; the scanned
\* count is the number of objects that were under the prefix.
C14_NoOldOrphanRemains ==
    (CompletedRun /\ results.errors = << >>)
        => /\ \A o \in UnderPrefix :
                 o.Key \notin ReferencedKeys(items) => ~OldAtStart(o)
           /\ results.filesChecked = Cardinality(UnderPrefix) + results.filesDeleted

----------------------------------------------------------------------------
(* Properties of healthCheck *)

InHealthCheck == invoked = << "healthCheck" >>

\* The health check returned its report.
ReportedHealth == InHealthCheck /\ pc = "done" /\ outcome = "returned"

Unhealthy(check) == check.status = "unhealthy"

\* C15: in the report of a health check the overall verdict is unhealthy when
\* the database check or the s3 check is unhealthy and healthy when neither is;
\* the status code is 200 with a healthy verdict and 500 with an unhealthy one;
\* and the body holds the result of both checks.
C15_HealthVerdict ==
    ReportedHealth
        => LET body == response.body
           IN  /\ body.overall \in { "healthy", "unhealthy" }
               /\ body.overall = "unhealthy"
                     <=> Unhealthy(body.checks.database) \/ Unhealthy(body.checks.s3)
               /\ response.statusCode = 200 <=> body.overall = "healthy"
               /\ response.statusCode = 500 <=> body.overall = "unhealthy"
               /\ body.checks.database # NoCheck
               /\ body.checks.s3 # NoCheck
               /\ body.checks = healthResults.checks

\* A report with a healthy database check and an unhealthy s3 check: the
\* verdict is unhealthy and the status code 500.
C15_Witness ==
    /\ ReportedHealth
    /\ response.body.checks.database.status = "healthy"
    /\ Unhealthy(response.body.checks.s3)
    /\ response.body.overall = "unhealthy"
    /\ response.statusCode = 500

\* C16: the two checks do not depend on each other: a database check that
\* fails, a failed reconnection included, does not keep the s3 check from
\* running, so a health check that has begun goes on to return a report with
\* both results; and when the s3 check fails the database result is reported.
C16_ProbesAreIndependent ==
    InHealthCheck
        => /\ pc \in { "hc_connect", "hc_s3", "done" }
           /\ pc = "done"
                 => /\ ReportedHealth
                    /\ response.body.checks.database # NoCheck
                    /\ response.body.checks.s3 # NoCheck
           /\ Unhealthy(healthResults.checks.s3)
                 => healthResults.checks.database # NoCheck

----------------------------------------------------------------------------
(* Properties of weeklyReport *)

InWeeklyReport == invoked = << "weeklyReport" >>

\* The metrics computed from metadata, before the listing.
MetadataMetrics ==
    { "totalItems", "itemsCreatedThisWeek", "itemsUpdatedThisWeek",
      "totalFiles", "totalFileSizeMB" }

ObjectStoreMetrics == { "s3ObjectCount", "s3TotalSizeMB" }

\* C17: every response of weeklyReport has status 200, after a failed query
\* too; and the step that ends the listing leaves the metrics computed from
\* metadata as they were and returns them, adding either the object-store count
\* and size or, when the listing failed, an s3Error field and neither of them,
\* and setting no general error.
C17_ReportAlwaysOk ==
    [][ /\ (InWeeklyReport' /\ pc' = "done")
              => /\ response'.statusCode = 200
                 /\ response'.body = report'
        /\ (pc = "wr_s3" /\ pc' = "done")
              => LET metrics == response'.body.metrics
                 IN  /\ MetadataMetrics \subseteq DOMAIN metrics
                     /\ \A name \in MetadataMetrics : metrics[name] = report.metrics[name]
                     /\ response'.body.error = "none"
                     /\ \/ /\ "s3Error" \in DOMAIN metrics
                           /\ metrics["s3Error"] = "StorageError"
                           /\ ObjectStoreMetrics \cap DOMAIN metrics = { }
                        \/ /\ "s3Error" \notin DOMAIN metrics
                           /\ ObjectStoreMetrics \subseteq DOMAIN metrics
      ]_vars

\* A report returned after a failed listing.
C17_Witness ==
    /\ InWeeklyReport
    /\ pc = "done"
    /\ response.statusCode = 200
    /\ "s3Error" \in DOMAIN response.body.metrics
    /\ "s3ObjectCount" \notin DOMAIN response.body.metrics
    /\ response.body.metrics["totalFiles"] = 2
    /\ response.body.error = "none"

----------------------------------------------------------------------------
(* Properties of the handler as a whole *)

Components == ScheduledTasks \cup { << "express" >> }

\* The response that the component invoked, or the default case, returns.
ComponentResult ==
    CASE invoked = << "healthCheck" >> -> HealthResponse(healthResults.checks)
      [] invoked = << "dailyCleanup" >> -> CleanupResponse(results)
      [] invoked = << "weeklyReport" >> -> ReportResponse(report)
      [] invoked = << "express" >> -> ExpressResponse
      [] OTHER -> UnknownRuleResponse(ruleName)

\* C18, as stated: an invocation that returns has invoked exactly one of the
\* four components and returns its result.
C18_ExactlyOneComponent ==
    (Invoked /\ pc = "done" /\ outcome = "returned")
        => /\ invoked \in Components
           /\ response = ComponentResult

\* C18, amended: an invocation invokes at most one of the four components:
\* none when the event is a scheduled trigger whose rule identifier is not one
\* of the three mapped identifiers, and exactly one otherwise; and the response
\* it returns after invoking a component is the result of that component.
C18_AtMostOneComponent ==
    Invoked
        => /\ Len(invoked) <= 1
           /\ invoked = << >> <=> (HasSchedulerMarker /\ ruleName \notin MappedRules)
           /\ invoked # << >> => invoked \in Components
           /\ (pc = "done" /\ outcome = "returned" /\ invoked # << >>)
                 => response = ComponentResult

\* The handler returned the report of the health check it invoked, the only
\* component of the invocation.
C18_Witness ==
    /\ Invoked
    /\ invoked = << "healthCheck" >>
    /\ pc = "done"
    /\ outcome = "returned"
    /\ response = HealthResponse(healthResults.checks)
    /\ response.statusCode = 200

----------------------------------------------------------------------------
(* Properties of an upload that races with dailyCleanup *)

\* The object of the upload has been written and its request has not failed.
UploadInStore == uploadPc \in { "stored", "saved" }

----------------------------------------------------------------------------
(* Properties of dailyCleanup: what a run may touch *)

\* The run is at an object of its listing that lies under the prefix, that its
\* referenced-keys set does not hold and that is 24 hours old or more.
AtDeletableObject ==
    /\ InLoop
    /\ HasPrefix(s3Files[idx].Key, UPLOADS_PREFIX)
    /\ s3Files[idx].Key \notin validKeys
    /\ now - s3Files[idx].LastModified >= oneDayMs

\* C22: a step of a run that deletes an object, or records a deletion or a
\* failed deletion, is at an object of the run's listing of the prefix that is
\* not in the run's referenced-keys set and is 24 hours old or more, and it
\* deletes or names that object's key and no other; no step of a run adds an
\* object to the store, changes one, or changes a metadata record.
C22_OnlyListedOldOrphansDeleted ==
    [][ /\ items' = items
        /\ s3' \subseteq s3
        /\ s3' # s3
              => /\ AtDeletableObject
                 /\ s3 \ s3' = { o \in s3 : o.Key = s3Files[idx].Key }
        /\ (InCleanup /\ InCleanup' /\ pc # "done"
              /\ (results'.deletedFiles # results.deletedFiles
                    \/ KeyedErrors(results'.errors) # KeyedErrors(results.errors)))
              => /\ AtDeletableObject
                 /\ Elements(results'.deletedFiles) \cup ErrorKeys(results'.errors)
                       = Elements(results.deletedFiles) \cup ErrorKeys(results.errors)
                             \cup { s3Files[idx].Key }
      ]_vars

\* A run deleted uploads/C and left in the store the referenced objects, as old
\* as it, and an object outside the prefix that no metadata references.
C22_Witness ==
    /\ CompletedRun
    /\ results.deletedFiles = << KeyC >>
    /\ validKeys = { KeyA, KeyB }
    /\ \A k \in { KeyA, KeyB, KeyItem } :
          Stored(k) /\ OldAtStart(ObjectAt(k))
    /\ ~Stored(KeyC)
    /\ items = [ i \in ItemIds |-> << KeyA, KeyB >> ]

----------------------------------------------------------------------------
(* Properties of the objects of the upload route under dailyCleanup *)

\* The key has the form items/<itemId>/<timestamp>-<filename>.
IsUploadRouteKey(key) == Len(key) = 3 /\ key[1] = "items"

UploadRouteObjects == { o \in s3 : IsUploadRouteKey(o.Key) }

\* C23: no run has an object of the upload route in its listing, among its
\* deleted keys or in its errors, and no step takes such an object out of the
\* store, whether a descriptor names it or not and whatever its age.
C23_UploadRouteObjectsOutOfReach ==
    [][ /\ \A o \in UploadRouteObjects : Stored(o.Key)'
        /\ \A key \in Elements(ListedKeys') \cup Elements(results'.deletedFiles)
                        \cup ErrorKeys(results'.errors) :
              ~IsUploadRouteKey(key)
      ]_vars

\* After a run that deleted uploads/C, the store holds an object of the upload
\* route that no descriptor names and one whose descriptor was saved, both 24
\* hours old or more when the run began.
C23_Witness ==
    /\ CompletedRun
    /\ results.deletedFiles = << KeyC >>
    /\ results.filesChecked = 3
    /\ uploadPc = "saved"
    /\ KeyUpload \in validKeys
    /\ KeyItem \notin ReferencedKeys(items)
    /\ \A k \in { KeyItem, KeyUpload } :
          Stored(k) /\ OldAtStart(ObjectAt(k))

----------------------------------------------------------------------------
(* Properties of the file-delete route *)

\* The key of the file that the request is to delete, once it is found.
DeleteRouteKey == deleteRoute.files[deleteRoute.fileIndex]

\* C24: the route takes the descriptor out of the item only in the step that
\* follows a deleteFile that succeeded; while the object-store delete is
\* pending, and after it failed, the files of the item are those that were
\* loaded, and the answer to a failed delete is 500; and when the route has
\* answered 200 the key is not in the object store and no file of the item has
\* it.
C24_DescriptorRemovedAfterObject ==
    [][ /\ items' # items
              => /\ deleteRoute.pc = "save"
                 /\ ~Stored(DeleteRouteKey)
                 /\ deleteRoute'.status = 200
        /\ deleteRoute'.pc = "s3_delete"
              => items'["i1"] = deleteRoute'.files
        /\ deleteRoute'.error = "StorageError"
              => /\ deleteRoute'.status = 500
                 /\ items'["i1"] = deleteRoute'.files
                 /\ s3' = s3
        /\ deleteRoute'.status = 200
              => /\ ~Stored(DeleteRouteKey)'
                 /\ DeleteRouteKey' \notin Elements(items'["i1"])
                 /\ items'["i1"] = Splice(deleteRoute'.files, deleteRoute'.fileIndex)
      ]_vars

\* The route answered 200 to the deletion of the first of two files: the
\* object is gone and the item keeps the second file alone.
C24_Witness ==
    /\ deleteRoute.pc = "responded"
    /\ deleteRoute.status = 200
    /\ deleteRoute.files = << KeyA, KeyB >>
    /\ deleteRoute.fileIndex = 1
    /\ items["i1"] = << KeyB >>
    /\ ~Stored(KeyA)
    /\ Stored(KeyB)

----------------------------------------------------------------------------
(* Properties of the connection to the metadata store *)

\* The step in which the probe of the metadata store records its result.
ProbeAnswers == pc # "hc_s3" /\ pc' = "hc_s3"

\* The probe answers from the connection as it is: connectDB was not called,
\* or it returned without connecting.
ProbeMadeNoAttempt == pc # "hc_connect"

\* C21: the probe of the metadata store records healthy only if the connection
\* is live (readyState 1) when the probe looks at it, or the connection
\* attempt that the probe made succeeded; and it makes an attempt only when
\* the connection is not live.  A probe that finds the connection not live and
\* makes no attempt does not record healthy.
C21_HealthyOnlyWhenLiveOrReconnected ==
    [][ /\ ( ProbeAnswers
             /\ healthResults'.checks.database.status = "healthy" )
              => IF ProbeMadeNoAttempt
                 THEN readyState = 1
                 ELSE readyState' = 1
        /\ ( InHealthCheck' /\ pc' = "hc_connect" /\ pc # "hc_connect" )
              => readyState # 1
      ]_vars

\* A scheduled task starts and calls connectDB: the weekly report and the
\* daily cleanup always, the health check when the connection is not live.
CallsConnectDB ==
    /\ pc \in { "idle", "done" }
    /\ \/ InWeeklyReport' /\ pc' \in { "wr_total", "wr_connect" }
       \/ InCleanup' /\ pc' \in { "dc_find", "dc_connect" }
       \/ InHealthCheck' /\ pc' \in { "hc_s3", "hc_connect" } /\ readyState # 1

\* The call went on to mongoose.connect.
AttemptsConnection == pc' \in { "wr_connect", "dc_connect", "hc_connect" }

\* C25: the isConnected flag is true only while the connection is connected
\* (readyState 1); a connectDB call made while the flag is true goes on to no
\* connection attempt and leaves the connection as it is; and a connectDB call
\* made while the flag is false, as it is after a 'disconnected' event,
\* attempts a connection.
C25_FlagMirrorsConnection ==
    [][ /\ isConnected' => readyState' = 1
        /\ ( CallsConnectDB /\ isConnected )
              => ~AttemptsConnection /\ UNCHANGED connVars
        /\ ( CallsConnectDB /\ ~isConnected )
              => AttemptsConnection
      ]_vars

====
